---- MODULE Spec2Model ----
(***************************************************************************)
(* Model of lightrag/api/new/new_routers/graph_routes.py: the graph        *)
(* mutation and query handlers over a graph store and a vector index.      *)
(* The handlers are translated from the router source; the stores and the  *)
(* rag.aedit_entity / rag.adelete_by_entity / rag.aedit_relation calls     *)
(* they delegate to are modelled from the design document (sections 4.1 to *)
(* 4.3).                                                                   *)
(***************************************************************************)
EXTENDS Naturals, Sequences, FiniteSets, TLC

\* ------------------------------------------------------------------ bounds
\* Number of handler invocations explored from an initial state.
MaxOps == 1

\* Entity names in play.
Names == {"A", "B", "A2"}

\* Python None, and the marker of a key that is not in a request dict.
None == "None"
Missing == "Missing"

\* Values stored initially and values sent in requests.
InitVal == "x1"
NewVal == "x2"

NodeKeys == {"entity_type", "description", "source_id"}
EdgeKeys == {"weight", "keywords", "description", "source_id"}

\* ------------------------------------------------------- python primitives
\* dict.get(key, None): a missing key and a null value both read as None.
Get(d, k) == IF d[k] = Missing THEN None ELSE d[k]

\* Truthiness of an optional string: None and "" are falsy.
Truthy(v) == v # None /\ v # ""

NoErr == ""

\* ------------------------------------------------------------------- state
VARIABLES
    nodes,   \* graph store: entity name -> node record (domain = existing nodes)
    edges,   \* graph store: <<src, tgt>> -> edge record (domain = existing edges)
    vindex,  \* vector index: set of keys that hold an embedding
    last,    \* the last handler invocation: operation, inputs, store calls, outcome
    before,  \* the stores as they were when the last invocation started
    ever,    \* names that have existed as a node at some time
    nops,    \* handler invocations so far
    tasks    \* requests in progress, one store call at a time (concurrent runs)

vars == <<nodes, edges, vindex, last, before, ever, nops, tasks>>

Store == [nodes |-> nodes, edges |-> edges, vindex |-> vindex]

\* ------------------------------------------------------------- vector keys
\* Key of an entity's vector record.
entityKey(name) == <<name>>

\* Key of a relation's vector record: formed from the ordered pair.
compositeKey(src, tgt) == <<src, tgt>>

\* ------------------------------------------------------------- graph store
\* Partial-update merge: present-and-non-null overwrites, otherwise unchanged.
mergeFields(old, fields) ==
    [k \in DOMAIN old |-> IF fields[k] # None THEN fields[k] ELSE old[k]]

\* Edges incident to id in either direction.
incident(S, id) == {e \in DOMAIN S.edges : e[1] = id \/ e[2] = id}

getNode(S, id) == IF id \in DOMAIN S.nodes THEN <<S.nodes[id]>> ELSE <<>>

getEdge(S, src, tgt) ==
    IF <<src, tgt>> \in DOMAIN S.edges THEN <<S.edges[<<src, tgt>>]>> ELSE <<>>

getNodeEdges(S, id) == IF id \in DOMAIN S.nodes THEN incident(S, id) ELSE {}

queryAll(S) ==
    [nodes |-> {[id |-> n, fields |-> S.nodes[n]] : n \in DOMAIN S.nodes},
     edges |-> {[source |-> e[1], target |-> e[2], fields |-> S.edges[e]] :
                e \in DOMAIN S.edges}]

upsertNode(S, id, fields) ==
    [S EXCEPT !.nodes =
        IF id \in DOMAIN S.nodes
        THEN [S.nodes EXCEPT ![id] = mergeFields(@, fields)]
        ELSE (id :> fields) @@ S.nodes]

\* A rename that re-keys the node and leaves its incident edges for later.
renameNode_node_first(S, oldId, newId) ==
    [S EXCEPT !.nodes = [n \in ((DOMAIN S.nodes) \ {oldId}) \cup {newId} |->
                            IF n = newId THEN S.nodes[oldId] ELSE S.nodes[n]]]

\* The key an edge endpoint has after oldId is renamed to newId.
renamed(x, oldId, newId) == IF x = oldId THEN newId ELSE x

renameConflict(S, oldId, newId) == newId \in DOMAIN S.nodes /\ newId # oldId

renameNode(S, oldId, newId) ==
    LET moved == incident(S, oldId)
        target(e) == <<renamed(e[1], oldId, newId), renamed(e[2], oldId, newId)>>
        kept == (DOMAIN S.edges) \ moved
        newDom == kept \cup {target(e) : e \in moved}
        source(k) == CHOOSE e \in moved : target(e) = k
    IN [S EXCEPT
          !.nodes = [n \in ((DOMAIN S.nodes) \ {oldId}) \cup {newId} |->
                        IF n = newId THEN S.nodes[oldId] ELSE S.nodes[n]],
          !.edges = [k \in newDom |->
                        IF k \in {target(e) : e \in moved}
                        THEN S.edges[source(k)] ELSE S.edges[k]]]

removeNode(S, id) ==
    IF id \in DOMAIN S.nodes
    THEN [S EXCEPT
            !.nodes = [n \in (DOMAIN S.nodes) \ {id} |-> S.nodes[n]],
            !.edges = [e \in (DOMAIN S.edges) \ incident(S, id) |-> S.edges[e]]]
    ELSE S

upsertEdge(S, src, tgt, fields) ==
    [S EXCEPT !.edges =
        IF <<src, tgt>> \in DOMAIN S.edges
        THEN [S.edges EXCEPT ![<<src, tgt>>] = mergeFields(@, fields)]
        ELSE (<<src, tgt>> :> fields) @@ S.edges]

removeEdge(S, src, tgt) ==
    [S EXCEPT !.edges = [e \in (DOMAIN S.edges) \ {<<src, tgt>>} |-> S.edges[e]]]

\* ------------------------------------------------------------ vector index
deleteEntityOrRelation(S, key) == [S EXCEPT !.vindex = @ \ {key}]

\* ------------------------------------------------- store calls and failures
\* One store call of an operation: the called method, what it does, its inputs.
Call(call, kind, a, b, fields) ==
    [call |-> call, kind |-> kind, a |-> a, b |-> b, fields |-> fields]

NoFields == <<>>

\* The error a store call raises by itself in state S ("" when it succeeds).
callError(S, c) ==
    IF c.kind = "renameNode" /\ renameConflict(S, c.a, c.b) THEN "ConflictError"
    ELSE IF c.kind = "renameNode" /\ c.a \notin DOMAIN S.nodes THEN "NotFound"
    ELSE NoErr

\* The effect of a successful store call.
callEffect(S, c) ==
    CASE c.kind = "upsertNode" -> upsertNode(S, c.a, c.fields)
      [] c.kind = "renameNode" -> renameNode(S, c.a, c.b)
      [] c.kind = "removeNode" -> removeNode(S, c.a)
      [] c.kind = "upsertEdge" -> upsertEdge(S, c.a, c.b, c.fields)
      [] c.kind = "removeEdge" -> removeEdge(S, c.a, c.b)
      [] c.kind = "vdeleteEntity" -> deleteEntityOrRelation(S, entityKey(c.a))
      [] c.kind = "vdeleteRelation" ->
             deleteEntityOrRelation(S, compositeKey(c.a, c.b))
      [] OTHER -> S    \* commits and reads leave the store contents as they are

\* The message of the I/O failure injected into a store call.
ioError(c) == "IOError in " \o c.call

\* Run the store calls cs in order from S; call number fault (0: none) fails
\* with an I/O error. Stops at the first failing call: the result holds the
\* state the completed calls produced, the error, and the completed calls.
RECURSIVE runFrom(_, _, _, _, _)
runFrom(S, cs, i, fault, done) ==
    IF i > Len(cs) THEN [S |-> S, err |-> NoErr, calls |-> done]
    ELSE IF i = fault THEN [S |-> S, err |-> ioError(cs[i]), calls |-> done]
    ELSE IF callError(S, cs[i]) # NoErr
         THEN [S |-> S, err |-> callError(S, cs[i]), calls |-> done]
    ELSE runFrom(callEffect(S, cs[i]), cs, i + 1, fault, Append(done, cs[i].call))

run(S, cs, fault) == runFrom(S, cs, 1, fault, <<>>)

\* A set of edges as a sequence, in a fixed order.
RECURSIVE edgeSeq(_)
edgeSeq(E) ==
    IF E = {} THEN <<>>
    ELSE LET e == CHOOSE x \in E : TRUE IN <<e>> \o edgeSeq(E \ {e})

\* ---------------------------------------------------------- rag operations
\* rag.aedit_entity(entity_name, node_data): rename when a different
\* entity_name is given, then merge the other fields.
aedit_entity_calls(entity_name, node_data) ==
    LET otherFields == [k \in NodeKeys |-> node_data[k]]
        newName == node_data.entity_name
    IN IF newName # Missing /\ newName # entity_name
       THEN << Call("graph.rename_node", "renameNode", entity_name, newName, NoFields),
               Call("graph.upsert_node", "upsertNode", newName, "", otherFields) >>
       ELSE << Call("graph.upsert_node", "upsertNode", entity_name, "", otherFields) >>

aedit_entity(S, entity_name, node_data, fault) ==
    run(S, aedit_entity_calls(entity_name, node_data), fault)

\* rag.adelete_by_entity(entity_name): remove the node (cascading its edges),
\* delete the vector records of the entity and of the cascaded edges, commit.
adelete_by_entity_calls(S, entity_name) ==
    LET cascaded == getNodeEdges(S, entity_name)
        es == edgeSeq(cascaded)
    IN << Call("graph.remove_node", "removeNode", entity_name, "", NoFields),
          Call("vdb.delete_entity", "vdeleteEntity", entity_name, "", NoFields) >>
       \o [i \in 1..Len(es) |->
              Call("vdb.delete_relation", "vdeleteRelation", es[i][1], es[i][2], NoFields)]
       \o << Call("vdb.index_done_callback", "commit", "", "", NoFields) >>

adelete_by_entity(S, entity_name, fault) ==
    run(S, adelete_by_entity_calls(S, entity_name), fault)

\* rag.aedit_relation(src, tgt, edge_data): upsert of the edge.
aedit_relation_calls(src_id, tgt_id, edge_data) ==
    << Call("graph.upsert_edge", "upsertEdge", src_id, tgt_id, edge_data) >>

aedit_relation(S, src_id, tgt_id, edge_data, fault) ==
    run(S, aedit_relation_calls(src_id, tgt_id, edge_data), fault)

\* ------------------------------------------------------ responses (l.10-13)
DataResponse(code, message, data) ==
    [kind |-> "DataResponse", code |-> code, message |-> message, data |-> data]

HTTPException(status_code, detail) ==
    [kind |-> "HTTPException", status_code |-> status_code, detail |-> detail]

\* What a handler did: the stores after it, the completed store calls, the
\* error a store call raised (if any) and what the caller gets.
Handled(r, out) == [S |-> r.S, calls |-> r.calls, err |-> r.err, out |-> out]

\* ---------------------------------------------------------------- handlers
\* Mutation of update_entity: the requested entity_name is never put into
\* node_data, so no rename is asked of rag.aedit_entity.
update_entity_no_rename(S, entity_name, entity_data, fault) ==
    LET node_data == [entity_type |-> Get(entity_data, "entity_type"),
                      description |-> Get(entity_data, "description"),
                      source_id |-> Get(entity_data, "source_id"),
                      entity_name |-> Missing]
        r == aedit_entity(S, entity_name, node_data, fault)
        data == [id |-> entity_name, label |-> entity_name,
                 entity_type |-> node_data.entity_type,
                 description |-> node_data.description,
                 source_id |-> node_data.source_id,
                 entity_name |-> node_data.entity_name]
    IN Handled(r, IF r.err = NoErr THEN DataResponse(0, "ok", <<data>>)
                  ELSE HTTPException(500, r.err))

\* Mutation of update_entity: description is read from the entity_type key.
update_entity_wrong_key(S, entity_name, entity_data, fault) ==
    LET new_entity_name == Get(entity_data, "entity_name")
        node_data == [entity_type |-> Get(entity_data, "entity_type"),
                      description |-> Get(entity_data, "entity_type"),
                      source_id |-> Get(entity_data, "source_id"),
                      entity_name |-> IF Truthy(new_entity_name)
                                      THEN new_entity_name ELSE Missing]
        r == aedit_entity(S, entity_name, node_data, fault)
        data == [id |-> entity_name, label |-> entity_name,
                 entity_type |-> node_data.entity_type,
                 description |-> node_data.description,
                 source_id |-> node_data.source_id,
                 entity_name |-> node_data.entity_name]
    IN Handled(r, IF r.err = NoErr THEN DataResponse(0, "ok", <<data>>)
                  ELSE HTTPException(500, r.err))

\* Mutation of update_entity: an error of rag.aedit_entity is swallowed and
\* the envelope is returned all the same.
update_entity_swallow(S, entity_name, entity_data, fault) ==
    LET new_entity_name == Get(entity_data, "entity_name")
        node_data == [entity_type |-> Get(entity_data, "entity_type"),
                      description |-> Get(entity_data, "description"),
                      source_id |-> Get(entity_data, "source_id"),
                      entity_name |-> IF Truthy(new_entity_name)
                                      THEN new_entity_name ELSE Missing]
        r == aedit_entity(S, entity_name, node_data, fault)
        data == [id |-> entity_name, label |-> entity_name,
                 entity_type |-> node_data.entity_type,
                 description |-> node_data.description,
                 source_id |-> node_data.source_id,
                 entity_name |-> node_data.entity_name]
    IN Handled(r, DataResponse(0, "ok", <<data>>))

update_entity(S, entity_name, entity_data, fault) ==
    LET new_entity_name == Get(entity_data, "entity_name")
        entity_type == Get(entity_data, "entity_type")
        description == Get(entity_data, "description")
        source_id == Get(entity_data, "source_id")
        node_data == [entity_type |-> entity_type,
                      description |-> description,
                      source_id |-> source_id,
                      entity_name |-> IF Truthy(new_entity_name)
                                      THEN new_entity_name ELSE Missing]
        r == aedit_entity(S, entity_name, node_data, fault)
        returned_name == entity_name
        data == [id |-> returned_name, label |-> returned_name,
                 entity_type |-> node_data.entity_type,
                 description |-> node_data.description,
                 source_id |-> node_data.source_id,
                 entity_name |-> node_data.entity_name]
    IN Handled(r, IF r.err = NoErr THEN DataResponse(0, "ok", <<data>>)
                  ELSE HTTPException(500, r.err))

\* Mutation of delete_entity: the coroutine of rag.adelete_by_entity is never
\* awaited, so nothing is deleted.
delete_entity_not_awaited(S, entity_name, fault) ==
    Handled([S |-> S, calls |-> <<>>, err |-> NoErr], DataResponse(0, "ok", <<>>))

\* Mutation of delete_entity: deleting an unknown entity is refused.
delete_entity_strict(S, entity_name, fault) ==
    LET r == adelete_by_entity(S, entity_name, fault)
    IN IF entity_name \notin DOMAIN S.nodes
       THEN Handled([S |-> S, calls |-> <<>>, err |-> NoErr],
                    HTTPException(404, "entity not found"))
       ELSE Handled(r, IF r.err = NoErr THEN DataResponse(0, "ok", <<>>)
                       ELSE HTTPException(500, r.err))

delete_entity(S, entity_name, fault) ==
    LET r == adelete_by_entity(S, entity_name, fault)
    IN Handled(r, IF r.err = NoErr THEN DataResponse(0, "ok", <<>>)
                  ELSE HTTPException(500, r.err))

\* Mutation of update_relation_by_nodes: both endpoints must be nodes.
update_relation_by_nodes_validating(S, src_entity_name, tgt_entity_name, relation_data, fault) ==
    LET edge_data == [weight |-> Get(relation_data, "weight"),
                      description |-> Get(relation_data, "description"),
                      keywords |-> Get(relation_data, "keywords"),
                      source_id |-> Get(relation_data, "source_id")]
        r == aedit_relation(S, src_entity_name, tgt_entity_name, edge_data, fault)
        data == [id |-> src_entity_name \o "_" \o tgt_entity_name,
                 source |-> src_entity_name,
                 target |-> tgt_entity_name,
                 weight |-> edge_data.weight,
                 description |-> edge_data.description,
                 keywords |-> edge_data.keywords,
                 source_id |-> edge_data.source_id]
    IN IF {src_entity_name, tgt_entity_name} \subseteq DOMAIN S.nodes
       THEN Handled(r, IF r.err = NoErr THEN DataResponse(0, "ok", <<data>>)
                       ELSE HTTPException(500, r.err))
       ELSE Handled([S |-> S, calls |-> <<>>, err |-> NoErr],
                    HTTPException(400, "unknown endpoint"))

update_relation_by_nodes(S, src_entity_name, tgt_entity_name, relation_data, fault) ==
    LET src_id == src_entity_name
        tgt_id == tgt_entity_name
        edge_data == [weight |-> Get(relation_data, "weight"),
                      description |-> Get(relation_data, "description"),
                      keywords |-> Get(relation_data, "keywords"),
                      source_id |-> Get(relation_data, "source_id")]
        r == aedit_relation(S, src_id, tgt_id, edge_data, fault)
        data == [id |-> src_id \o "_" \o tgt_id,
                 source |-> src_id,
                 target |-> tgt_id,
                 weight |-> edge_data.weight,
                 description |-> edge_data.description,
                 keywords |-> edge_data.keywords,
                 source_id |-> edge_data.source_id]
    IN Handled(r, IF r.err = NoErr THEN DataResponse(0, "ok", <<data>>)
                  ELSE HTTPException(500, r.err))

\* Mutation of delete_relation_by_nodes: the pair handed to remove_edges is
\* (tgt, src).
delete_relation_by_nodes_calls_swapped(src_entity_name, tgt_entity_name) ==
    << Call("relationships_vdb.delete_entity_relation_by_nodes", "vdeleteRelation",
            src_entity_name, tgt_entity_name, NoFields),
       Call("chunk_entity_relation_graph.remove_edges", "removeEdge",
            tgt_entity_name, src_entity_name, NoFields),
       Call("relationships_vdb.index_done_callback", "commit", "", "", NoFields),
       Call("chunk_entity_relation_graph.index_done_callback", "commit", "", "", NoFields) >>

\* Mutation of delete_relation_by_nodes: the index-done callbacks run before
\* the edge is removed.
delete_relation_by_nodes_calls_commit_first(src_entity_name, tgt_entity_name) ==
    << Call("relationships_vdb.delete_entity_relation_by_nodes", "vdeleteRelation",
            src_entity_name, tgt_entity_name, NoFields),
       Call("relationships_vdb.index_done_callback", "commit", "", "", NoFields),
       Call("chunk_entity_relation_graph.index_done_callback", "commit", "", "", NoFields),
       Call("chunk_entity_relation_graph.remove_edges", "removeEdge",
            src_entity_name, tgt_entity_name, NoFields) >>

\* Mutation of delete_relation_by_nodes: the relation is taken as undirected
\* and both directions are deleted.
delete_relation_by_nodes_calls_undirected(src_entity_name, tgt_entity_name) ==
    << Call("relationships_vdb.delete_entity_relation_by_nodes", "vdeleteRelation",
            src_entity_name, tgt_entity_name, NoFields),
       Call("relationships_vdb.delete_entity_relation_by_nodes", "vdeleteRelation",
            tgt_entity_name, src_entity_name, NoFields),
       Call("chunk_entity_relation_graph.remove_edges", "removeEdge",
            src_entity_name, tgt_entity_name, NoFields),
       Call("chunk_entity_relation_graph.remove_edges", "removeEdge",
            tgt_entity_name, src_entity_name, NoFields),
       Call("relationships_vdb.index_done_callback", "commit", "", "", NoFields),
       Call("chunk_entity_relation_graph.index_done_callback", "commit", "", "", NoFields) >>

delete_relation_by_nodes_calls(src_entity_name, tgt_entity_name) ==
    << Call("relationships_vdb.delete_entity_relation_by_nodes", "vdeleteRelation",
            src_entity_name, tgt_entity_name, NoFields),
       Call("chunk_entity_relation_graph.remove_edges", "removeEdge",
            src_entity_name, tgt_entity_name, NoFields),
       Call("relationships_vdb.index_done_callback", "commit", "", "", NoFields),
       Call("chunk_entity_relation_graph.index_done_callback", "commit", "", "", NoFields) >>

\* Mutation of delete_relation_by_nodes: a store error is put into an
\* envelope with code 1 instead of being raised.
delete_relation_by_nodes_error_code(S, src_entity_name, tgt_entity_name, fault) ==
    LET r == run(S, delete_relation_by_nodes_calls(src_entity_name, tgt_entity_name), fault)
    IN Handled(r, IF r.err = NoErr THEN DataResponse(0, "ok", <<"">>)
                  ELSE DataResponse(1, r.err, <<"">>))

\* Mutation of delete_relation_by_nodes: on a failure the stores are put
\* back as they were before the first call.
delete_relation_by_nodes_rollback(S, src_entity_name, tgt_entity_name, fault) ==
    LET r == run(S, delete_relation_by_nodes_calls(src_entity_name, tgt_entity_name), fault)
    IN IF r.err = NoErr THEN Handled(r, DataResponse(0, "ok", <<"">>))
       ELSE Handled([S |-> S, calls |-> r.calls, err |-> r.err],
                    HTTPException(500, r.err))

\* Mutation of delete_relation_by_nodes: deleting an unknown relation is
\* refused.
delete_relation_by_nodes_strict(S, src_entity_name, tgt_entity_name, fault) ==
    LET r == run(S, delete_relation_by_nodes_calls(src_entity_name, tgt_entity_name), fault)
    IN IF <<src_entity_name, tgt_entity_name>> \notin DOMAIN S.edges
       THEN Handled([S |-> S, calls |-> <<>>, err |-> NoErr],
                    HTTPException(404, "relation not found"))
       ELSE Handled(r, IF r.err = NoErr THEN DataResponse(0, "ok", <<"">>)
                       ELSE HTTPException(500, r.err))

delete_relation_by_nodes(S, src_entity_name, tgt_entity_name, fault) ==
    LET r == run(S, delete_relation_by_nodes_calls(src_entity_name, tgt_entity_name), fault)
    IN Handled(r, IF r.err = NoErr THEN DataResponse(0, "ok", <<"">>)
                  ELSE HTTPException(500, r.err))

\* Mutation of get_node: an unknown entity is answered with a 404 failure.
get_node_not_found(S, entity_name, fault) ==
    LET r == run(S, << Call("chunk_entity_relation_graph.get_node", "read",
                            entity_name, "", NoFields) >>, fault)
        node == getNode(S, entity_name)
    IN Handled(r, IF r.err # NoErr THEN HTTPException(500, r.err)
                  ELSE IF node = <<>> THEN HTTPException(404, "not found")
                  ELSE DataResponse(0, "ok", node))

get_node(S, entity_name, fault) ==
    LET r == run(S, << Call("chunk_entity_relation_graph.get_node", "read",
                            entity_name, "", NoFields) >>, fault)
        node == getNode(S, entity_name)
    IN Handled(r, IF r.err = NoErr THEN DataResponse(0, "ok", node)
                  ELSE HTTPException(500, r.err))

get_relation_by_nodes(S, src_entity_name, tgt_entity_name, fault) ==
    LET r == run(S, << Call("chunk_entity_relation_graph.get_edge", "read",
                            src_entity_name, tgt_entity_name, NoFields) >>, fault)
        relation == getEdge(S, src_entity_name, tgt_entity_name)
    IN Handled(r, IF r.err = NoErr THEN DataResponse(0, "ok", relation)
                  ELSE HTTPException(500, r.err))

get_relation_by_node(S, node_id, fault) ==
    LET r == run(S, << Call("chunk_entity_relation_graph.get_node_edges", "read",
                            node_id, "", NoFields) >>, fault)
        relations == getNodeEdges(S, node_id)
    IN Handled(r, IF r.err = NoErr THEN DataResponse(0, "ok", relations)
                  ELSE HTTPException(500, r.err))

get_graph_entity_list(S, fault) ==
    LET r == run(S, << Call("chunk_entity_relation_graph.query_all", "read",
                            "", "", NoFields) >>, fault)
        entities == queryAll(S)
    IN Handled(r, IF r.err = NoErr
                  THEN DataResponse(0, "ok", entities)
                  ELSE HTTPException(500, r.err))

\* Mutation of get_graph_data: only the nodes are returned.
get_graph_data_nodes_only(S, fault) ==
    LET r == run(S, << Call("chunk_entity_relation_graph.query_all", "read",
                            "", "", NoFields) >>, fault)
        entities == queryAll(S)
    IN Handled(r, IF r.err = NoErr
                  THEN DataResponse(0, "ok", [nodes |-> entities.nodes, edges |-> {}])
                  ELSE HTTPException(500, r.err))

get_graph_data(S, fault) ==
    LET r == run(S, << Call("chunk_entity_relation_graph.query_all", "read",
                            "", "", NoFields) >>, fault)
        entities == queryAll(S)
    IN Handled(r, IF r.err = NoErr THEN DataResponse(0, "ok", entities)
                  ELSE HTTPException(500, r.err))

\* ------------------------------------------------------------------ inputs
\* A request field is not sent (Missing), sent as null (None) or sent with a
\* value. The field patterns put every field in each of the three modes.
EntityFieldPatterns ==
    { [entity_type |-> Missing, description |-> Missing, source_id |-> Missing],
      [entity_type |-> Missing, description |-> NewVal,  source_id |-> None],
      [entity_type |-> NewVal,  description |-> None,    source_id |-> Missing],
      [entity_type |-> None,    description |-> Missing, source_id |-> NewVal] }

withName(p, name) ==
    [entity_name |-> name, entity_type |-> p.entity_type,
     description |-> p.description, source_id |-> p.source_id]

\* Request bodies of update_entity: each pattern without entity_name and with
\* each name, and a null and an empty entity_name.
EntityDatas ==
    {withName(p, n) : p \in EntityFieldPatterns, n \in {Missing} \cup Names}
    \cup {withName(p, n) : p \in {x \in EntityFieldPatterns : x.description = NewVal},
                           n \in {None, ""}}

\* Request bodies of update_relation_by_nodes.
RelationDatas ==
    { [weight |-> Missing, keywords |-> Missing, description |-> Missing, source_id |-> Missing],
      [weight |-> Missing, keywords |-> NewVal,  description |-> None,    source_id |-> NewVal],
      [weight |-> NewVal,  keywords |-> None,    description |-> Missing, source_id |-> Missing],
      [weight |-> None,    keywords |-> Missing, description |-> NewVal,  source_id |-> None] }

\* --------------------------------------------------------- initial states
\* Records as the ingestion pipeline leaves them: every node and edge has
\* its own description, and its vector record.
initNode(n) ==
    [entity_type |-> InitVal, description |-> "about " \o n, source_id |-> None]

initEdge(e) ==
    [weight |-> InitVal, keywords |-> None,
     description |-> e[1] \o " to " \o e[2], source_id |-> InitVal]

InitEdgeCandidates == {<<"A", "B">>, <<"B", "A">>, <<"A", "A">>, <<"B", "A2">>}

\* The requests that can be in progress at the same time.
TaskIds == {"t1", "t2"}

IdleTask == [state |-> "idle", op |-> "none", a |-> "", b |-> "", req |-> <<>>,
             done |-> <<>>, err |-> NoErr, start |-> <<>>]

NoOp == [op |-> "none", a |-> "", b |-> "", req |-> <<>>,
         err |-> NoErr, calls |-> <<>>, out |-> [kind |-> "none"]]

Init ==
    /\ \E N \in SUBSET Names :
         \E E \in SUBSET (InitEdgeCandidates \cap (N \X N)) :
            /\ nodes = [n \in N |-> initNode(n)]
            /\ edges = [e \in E |-> initEdge(e)]
            /\ vindex = {entityKey(n) : n \in N} \cup {compositeKey(e[1], e[2]) : e \in E}
            /\ ever = N
    /\ last = NoOp
    /\ before = Store
    /\ nops = 0
    /\ tasks = [t \in TaskIds |-> IdleTask]

\* ----------------------------------------------------------------- actions
\* A handler invocation of operation op on inputs a, b, req, with outcome h.
Invoke(op, a, b, req, h) ==
    /\ nops < MaxOps
    /\ nodes' = h.S.nodes
    /\ edges' = h.S.edges
    /\ vindex' = h.S.vindex
    /\ last' = [op |-> op, a |-> a, b |-> b, req |-> req,
                err |-> h.err, calls |-> h.calls, out |-> h.out]
    /\ before' = Store
    /\ ever' = ever \cup DOMAIN h.S.nodes
    /\ nops' = nops + 1
    /\ UNCHANGED tasks

UpdateEntity ==
    \E n \in Names, d \in EntityDatas, fault \in 0..2 :
        Invoke("update_entity", n, "", d, update_entity(Store, n, d, fault))

DeleteEntity ==
    \E n \in Names :
        \E fault \in 0..Len(adelete_by_entity_calls(Store, n)) :
            Invoke("delete_entity", n, "", <<>>, delete_entity(Store, n, fault))

UpdateRelationByNodes ==
    \E s \in Names, t \in Names, d \in RelationDatas, fault \in 0..1 :
        Invoke("update_relation_by_nodes", s, t, d,
               update_relation_by_nodes(Store, s, t, d, fault))

DeleteRelationByNodes ==
    \E s \in Names, t \in Names, fault \in 0..4 :
        Invoke("delete_relation_by_nodes", s, t, <<>>,
               delete_relation_by_nodes(Store, s, t, fault))

GetEntity ==
    \E n \in Names, fault \in 0..1 :
        Invoke("get_node", n, "", <<>>, get_node(Store, n, fault))

GetRelationByNodes ==
    \E s \in Names, t \in Names, fault \in 0..1 :
        Invoke("get_relation_by_nodes", s, t, <<>>,
               get_relation_by_nodes(Store, s, t, fault))

GetRelationsByNode ==
    \E n \in Names, fault \in 0..1 :
        Invoke("get_relation_by_node", n, "", <<>>,
               get_relation_by_node(Store, n, fault))

ListEntities ==
    \E fault \in 0..1 :
        Invoke("get_graph_entity_list", "", "", <<>>,
               get_graph_entity_list(Store, fault))

GetGraphData ==
    \E fault \in 0..1 :
        Invoke("get_graph_data", "", "", <<>>, get_graph_data(Store, fault))

Next ==
    \/ UpdateEntity
    \/ DeleteEntity
    \/ UpdateRelationByNodes
    \/ DeleteRelationByNodes
    \/ GetEntity
    \/ GetRelationByNodes
    \/ GetRelationsByNode
    \/ ListEntities
    \/ GetGraphData

Spec == Init /\ [][Next]_vars

\* ------------------------------------------------- requests run step by step
\* The node_data that update_entity hands to rag.aedit_entity.
update_entity_node_data(entity_data) ==
    LET new_entity_name == Get(entity_data, "entity_name")
    IN [entity_type |-> Get(entity_data, "entity_type"),
        description |-> Get(entity_data, "description"),
        source_id |-> Get(entity_data, "source_id"),
        entity_name |-> IF Truthy(new_entity_name) THEN new_entity_name ELSE Missing]

\* The edge_data that update_relation_by_nodes hands to rag.aedit_relation.
update_relation_edge_data(relation_data) ==
    [weight |-> Get(relation_data, "weight"),
     description |-> Get(relation_data, "description"),
     keywords |-> Get(relation_data, "keywords"),
     source_id |-> Get(relation_data, "source_id")]

\* A request enters its handler: its store calls are still to be made.
Begin(t, op, a, b, req) ==
    /\ tasks[t].state = "idle"
    /\ tasks' = [tasks EXCEPT ![t] =
                    [state |-> "running", op |-> op, a |-> a, b |-> b, req |-> req,
                     done |-> <<>>, err |-> NoErr, start |-> Store]]
    /\ UNCHANGED <<nodes, edges, vindex, last, before, ever, nops>>

BeginUpdateEntity(t) ==
    \E n \in Names, d \in EntityDatas :
        Begin(t, "update_entity", n, "", d)

BeginUpdateRelation(t) ==
    \E s \in Names, x \in Names, d \in RelationDatas :
        Begin(t, "update_relation_by_nodes", s, x, d)

BeginDeleteRelation(t) ==
    \E s \in Names, x \in Names :
        Begin(t, "delete_relation_by_nodes", s, x, <<>>)

\* The store calls a request makes, in order.
taskCalls(t) ==
    CASE tasks[t].op = "update_entity" ->
             aedit_entity_calls(tasks[t].a, update_entity_node_data(tasks[t].req))
      [] tasks[t].op = "update_relation_by_nodes" ->
             aedit_relation_calls(tasks[t].a, tasks[t].b,
                                  update_relation_edge_data(tasks[t].req))
      [] tasks[t].op = "delete_relation_by_nodes" ->
             delete_relation_by_nodes_calls(tasks[t].a, tasks[t].b)

\* The next store call of a running request.
nextCall(t) == taskCalls(t)[Len(tasks[t].done) + 1]

\* The next store call of request t completes; after the last one the handler
\* returns its code-0 envelope.
CallSucceeds(t) ==
    /\ tasks[t].state = "running"
    /\ callError(Store, nextCall(t)) = NoErr
    /\ LET S == callEffect(Store, nextCall(t))
       IN /\ nodes' = S.nodes
          /\ edges' = S.edges
          /\ vindex' = S.vindex
          /\ ever' = ever \cup DOMAIN S.nodes
    /\ tasks' = [tasks EXCEPT
                    ![t].done = Append(@, nextCall(t).call),
                    ![t].state = IF Len(tasks[t].done) + 1 = Len(taskCalls(t))
                                 THEN "ok" ELSE "running"]
    /\ UNCHANGED <<last, before, nops>>

\* The next store call of request t raises (its own error or an I/O failure):
\* the handler raises HTTPException and makes no further call.
CallFails(t) ==
    /\ tasks[t].state = "running"
    /\ tasks' = [tasks EXCEPT
                    ![t].state = "failed",
                    ![t].err = IF callError(Store, nextCall(t)) # NoErr
                               THEN callError(Store, nextCall(t))
                               ELSE ioError(nextCall(t))]
    /\ UNCHANGED <<nodes, edges, vindex, last, before, ever, nops>>

\* A read request: one store call, answered from the stores as they are now.
Observe(op, a, b, h) ==
    /\ last' = [op |-> op, a |-> a, b |-> b, req |-> <<>>,
                err |-> h.err, calls |-> h.calls, out |-> h.out]
    /\ before' = Store
    /\ UNCHANGED <<nodes, edges, vindex, ever, nops, tasks>>

ObserveEntity ==
    \E n \in Names : Observe("get_node", n, "", get_node(Store, n, 0))

ObserveRelationByNodes ==
    \E s \in Names, x \in Names :
        Observe("get_relation_by_nodes", s, x, get_relation_by_nodes(Store, s, x, 0))

ObserveRelationsByNode ==
    \E n \in Names :
        Observe("get_relation_by_node", n, "", get_relation_by_node(Store, n, 0))

ObserveEntityList ==
    Observe("get_graph_entity_list", "", "", get_graph_entity_list(Store, 0))

ObserveGraphData ==
    Observe("get_graph_data", "", "", get_graph_data(Store, 0))

\* One UpdateEntity running while reads are served.
NextRename ==
    \/ BeginUpdateEntity("t1")
    \/ CallSucceeds("t1")
    \/ CallFails("t1")
    \/ ObserveEntity
    \/ ObserveRelationByNodes
    \/ ObserveRelationsByNode
    \/ ObserveEntityList
    \/ ObserveGraphData

SpecRename == Init /\ [][NextRename]_vars

\* A DeleteRelationByNodes and an UpdateRelationByNodes running together.
NextRace ==
    \/ BeginDeleteRelation("t1")
    \/ BeginUpdateRelation("t2")
    \/ CallSucceeds("t1")
    \/ CallFails("t1")
    \/ CallSucceeds("t2")
    \/ CallFails("t2")

SpecRace == Init /\ [][NextRace]_vars

\* ------------------------------------------------------- shared vocabulary
Succeeded == last.out.kind = "DataResponse"

Mutations == {"update_entity", "delete_entity",
              "update_relation_by_nodes", "delete_relation_by_nodes"}

\* The vector index holds a record exactly for the nodes and edges of S.
Converged(S) ==
    S.vindex = {entityKey(n) : n \in DOMAIN S.nodes}
               \cup {compositeKey(e[1], e[2]) : e \in DOMAIN S.edges}

\* What the read handlers answer in the current state when no store call fails.
GetEntityNow(n) == get_node(Store, n, 0).out
GetRelationByNodesNow(s, t) == get_relation_by_nodes(Store, s, t, 0).out
GetRelationsByNodeNow(n) == get_relation_by_node(Store, n, 0).out

Absent == DataResponse(0, "ok", <<>>)

\* ---------------------------------------------------------------------- C1
\* C1: from a state in which the vector index holds a record exactly for the
\* entities and relations of the graph store, every successful coordinator
\* operation ends in a state where that is again so.
C1_VectorIndexMatchesGraph ==
    (last.op \in Mutations /\ Succeeded /\ Converged(before)) => Converged(Store)

\* ---------------------------------------------------------------------- C2
\* C2: when DeleteRelationByNodes(src, tgt) returns success, the vector index
\* has no record for compositeKey(src, tgt) and GetRelationByNodes(src, tgt)
\* answers absent.
C2_DeleteRelationConverges ==
    (last.op = "delete_relation_by_nodes" /\ Succeeded) =>
        /\ compositeKey(last.a, last.b) \notin vindex
        /\ GetRelationByNodesNow(last.a, last.b) = Absent

\* A successful DeleteRelationByNodes of an edge that existed with its record.
C2_Witness ==
    /\ last.op = "delete_relation_by_nodes" /\ Succeeded
    /\ <<last.a, last.b>> \in DOMAIN before.edges
    /\ compositeKey(last.a, last.b) \in before.vindex

\* ---------------------------------------------------------------------- C3
\* The name a request of update_entity renames to ("" when it asks for none).
RenameTarget(req) == IF Truthy(Get(req, "entity_name")) THEN req.entity_name ELSE ""

\* The last operation was a successful rename of an existing entity to a
\* name not in use: no node has it and no edge starts or ends at it.
RenamedToFreshName ==
    /\ last.op = "update_entity" /\ Succeeded
    /\ last.a \in DOMAIN before.nodes
    /\ RenameTarget(last.req) \notin {"", last.a}
    /\ RenameTarget(last.req) \notin DOMAIN before.nodes
    /\ incident(before, RenameTarget(last.req)) = {}

\* C3: rename preserves edges. After a successful UpdateEntity(A,
\* {entity_name: A2}) of an existing A to an unused A2, GetEntity(A2) is
\* present, GetEntity(A) is absent, and every edge that was incident to A (in
\* either direction) is absent under its old pair and present under the pair
\* with A replaced by A2, with the weight, keywords, description and source_id
\* it had.
C3_RenamePreservesEdges ==
    RenamedToFreshName =>
        LET A == last.a
            A2 == RenameTarget(last.req)
        IN /\ GetEntityNow(A2).data # <<>>
           /\ GetEntityNow(A) = Absent
           /\ \A e \in incident(before, A) :
                /\ GetRelationByNodesNow(e[1], e[2]) = Absent
                /\ GetRelationByNodesNow(renamed(e[1], A, A2), renamed(e[2], A, A2))
                       = DataResponse(0, "ok", <<before.edges[e]>>)

\* A rename of an entity that had an outgoing and an incoming edge.
C3_Witness ==
    /\ RenamedToFreshName
    /\ \E e \in incident(before, last.a) : e[1] = last.a /\ e[2] # last.a
    /\ \E e \in incident(before, last.a) : e[2] = last.a /\ e[1] # last.a

\* ---------------------------------------------------------------------- C4
\* The key under which update_entity leaves the entity it was called for.
StoredName == IF RenameTarget(last.req) = "" THEN last.a ELSE RenameTarget(last.req)

\* C4: partial update preserves untouched fields. After a successful
\* UpdateEntity on an existing entity, each of entity_type, description and
\* source_id that the request left out or sent as null has the value it had
\* before, and each one sent with a non-null value has that value.
C4_PartialUpdate ==
    (last.op = "update_entity" /\ Succeeded /\ last.a \in DOMAIN before.nodes) =>
        /\ StoredName \in DOMAIN nodes
        /\ \A k \in NodeKeys :
              nodes[StoredName][k] =
                 IF last.req[k] \in {Missing, None}
                 THEN before.nodes[last.a][k] ELSE last.req[k]

\* An update that sends one field, leaves one out and sends one as null, on
\* an entity whose left-out field held a value.
C4_Witness ==
    /\ last.op = "update_entity" /\ Succeeded /\ last.a \in DOMAIN before.nodes
    /\ \E k \in NodeKeys : last.req[k] = Missing /\ before.nodes[last.a][k] # None
    /\ \E k \in NodeKeys : last.req[k] = None
    /\ \E k \in NodeKeys : last.req[k] = NewVal /\ before.nodes[last.a][k] # NewVal

\* ---------------------------------------------------------------------- C5
\* C5: cascade on delete. After a successful DeleteEntity(E) of an entity E,
\* node E is absent, GetRelationsByNode(E) is empty, every edge that was
\* incident to E is absent, and the vector index holds no record for E nor
\* for any of those edges.
C5_CascadeOnDelete ==
    (last.op = "delete_entity" /\ Succeeded /\ last.a \in DOMAIN before.nodes) =>
        /\ GetEntityNow(last.a) = Absent
        /\ GetRelationsByNodeNow(last.a) = DataResponse(0, "ok", {})
        /\ entityKey(last.a) \notin vindex
        /\ \A e \in incident(before, last.a) :
              /\ GetRelationByNodesNow(e[1], e[2]) = Absent
              /\ compositeKey(e[1], e[2]) \notin vindex

\* A delete of an entity with at least two incident edges that had records.
C5_Witness ==
    /\ last.op = "delete_entity" /\ Succeeded /\ last.a \in DOMAIN before.nodes
    /\ Cardinality(incident(before, last.a)) >= 2
    /\ \A e \in incident(before, last.a) : compositeKey(e[1], e[2]) \in before.vindex
    /\ entityKey(last.a) \in before.vindex

\* ---------------------------------------------------------------------- C6
\* C6: idempotent entity delete. With no store failure DeleteEntity(x)
\* succeeds for every name x; called again after a successful DeleteEntity(x)
\* it succeeds and leaves the graph store and the vector index as the first
\* call left them; and for a name that never existed it changes nothing.
C6_IdempotentDelete ==
    /\ (last.op = "delete_entity" /\ last.err = NoErr) => Succeeded
    /\ (last.op = "delete_entity" /\ Succeeded) =>
          LET again == delete_entity(Store, last.a, 0)
          IN /\ again.out = Absent
             /\ again.S = Store
    /\ (last.op = "delete_entity" /\ Succeeded /\ last.a \notin ever) =>
          Store = before

\* A first delete that removed an existing entity, its edges and records.
C6_Witness ==
    /\ last.op = "delete_entity" /\ Succeeded
    /\ last.a \in DOMAIN before.nodes
    /\ incident(before, last.a) # {}
    /\ Store # before

\* ---------------------------------------------------------------------- C7
\* The fault position that reproduces the last read: 1 when its store call
\* failed, 0 when it did not.
SameFault == IF last.err = NoErr THEN 0 ELSE 1

\* C7: query equivalence. ListEntities and GetGraphData executed against the
\* same store state give the same outcome (code, message and {nodes, edges}
\* data), and neither changes the stores.
C7_QueryEquivalence ==
    /\ last.op = "get_graph_entity_list" =>
          /\ Store = before
          /\ last.out = get_graph_data(before, SameFault).out
          /\ get_graph_data(before, SameFault).S = before
    /\ last.op = "get_graph_data" =>
          /\ Store = before
          /\ last.out = get_graph_entity_list(before, SameFault).out
          /\ get_graph_entity_list(before, SameFault).S = before

\* A successful ListEntities over a graph with nodes and edges.
C7_Witness ==
    /\ last.op = "get_graph_entity_list" /\ Succeeded
    /\ last.out.data.nodes # {}
    /\ last.out.data.edges # {}

\* ---------------------------------------------------------------------- C8
\* C8: lookups of absent items are successes. With no store failure,
\* GetEntity of an unknown name and GetRelationByNodes of an unknown ordered
\* pair answer code 0 with null data; GetRelationsByNode answers code 0 with
\* the empty collection for a node without edges or an unknown node, and with
\* exactly the edges incident to the node (either direction) otherwise.
C8_AbsentLookups ==
    /\ (last.op = "get_node" /\ last.err = NoErr /\ last.a \notin DOMAIN before.nodes)
          => last.out = Absent
    /\ (last.op = "get_relation_by_nodes" /\ last.err = NoErr
            /\ <<last.a, last.b>> \notin DOMAIN before.edges)
          => last.out = Absent
    /\ (last.op = "get_relation_by_node" /\ last.err = NoErr) =>
          /\ last.out.kind = "DataResponse"
          /\ last.out.code = 0
          /\ last.a \notin DOMAIN before.nodes => last.out.data = {}
          /\ last.a \in DOMAIN before.nodes =>
                last.out.data = {e \in DOMAIN before.edges : last.a \in {e[1], e[2]}}

\* A lookup of an unknown entity in a graph that holds other entities.
C8_Witness ==
    /\ last.op = "get_node" /\ last.err = NoErr
    /\ last.a \notin DOMAIN before.nodes
    /\ DOMAIN before.nodes # {}

\* ---------------------------------------------------------------------- C9
\* C9: every operation ends either with an envelope whose code is 0 or with a
\* raised failure that carries the cause of the store error; an operation in
\* which a store call failed never ends with an envelope.
C9_TwoOutcomes ==
    last.op # "none" =>
        /\ last.err = NoErr =>
              (last.out.kind = "DataResponse" /\ last.out.code = 0)
        /\ last.err # NoErr =>
              (last.out.kind = "HTTPException" /\ last.out.detail = last.err)

\* A DeleteRelationByNodes whose graph-store commit failed after the deletes.
C9_Witness ==
    /\ last.op = "delete_relation_by_nodes"
    /\ last.err # NoErr
    /\ Len(last.calls) = 3
    /\ last.out.kind = "HTTPException"

\* --------------------------------------------------------------------- C10
\* C10: UpdateEntity returns the merged record. In the returned data label
\* equals id, and each of entity_type, description and source_id equals the
\* value stored for the entity after the update.
C10_ReturnsMergedRecord ==
    (last.op = "update_entity" /\ Succeeded) =>
        LET data == last.out.data[1]
        IN /\ data.label = data.id
           /\ StoredName \in DOMAIN nodes
           /\ \A k \in NodeKeys : data[k] = nodes[StoredName][k]

\* --------------------------------------------------------------------- C11
\* The last operation asked to rename an entity to the name of another node.
RenameOntoOtherNode ==
    /\ last.op = "update_entity"
    /\ RenameTarget(last.req) \notin {"", last.a}
    /\ RenameTarget(last.req) \in DOMAIN before.nodes

\* The I/O failure that can hit the rename call itself.
RenameIOError ==
    ioError(Call("graph.rename_node", "renameNode", "", "", NoFields))

\* C11: rename conflict. UpdateEntity(A, {entity_name: B}) where B exists as
\* a node other than A fails, with a conflict error unless the store call
\* itself broke down, and leaves the nodes, the edges and the vector records
\* as they were.
C11_RenameConflict ==
    RenameOntoOtherNode =>
        /\ last.out.kind = "HTTPException"
        /\ last.out.detail \in {"ConflictError", RenameIOError}
        /\ last.err # RenameIOError => last.out.detail = "ConflictError"
        /\ Store = before

\* A refused rename of an existing entity with edges onto another node.
C11_Witness ==
    /\ RenameOntoOtherNode
    /\ last.a \in DOMAIN before.nodes
    /\ incident(before, last.a) # {}
    /\ last.out.kind = "HTTPException"
    /\ last.out.detail = "ConflictError"

\* --------------------------------------------------------------------- C12
\* The store calls of DeleteRelationByNodes, in the order of the handler.
DeleteRelationOrder ==
    << "relationships_vdb.delete_entity_relation_by_nodes",
       "chunk_entity_relation_graph.remove_edges",
       "relationships_vdb.index_done_callback",
       "chunk_entity_relation_graph.index_done_callback" >>

\* C12: in every execution of DeleteRelationByNodes the completed store calls
\* are, in this order, the vector delete, the edge removal, the vector-index
\* commit and the graph-store commit; success is returned only after all
\* four, and once a commit has run the edge removal has taken effect.
C12_DeleteRelationOrder ==
    last.op = "delete_relation_by_nodes" =>
        /\ Len(last.calls) <= Len(DeleteRelationOrder)
        /\ last.calls = SubSeq(DeleteRelationOrder, 1, Len(last.calls))
        /\ Succeeded => last.calls = DeleteRelationOrder
        /\ (\E i \in 1..Len(last.calls) :
                last.calls[i] \in {"relationships_vdb.index_done_callback",
                                   "chunk_entity_relation_graph.index_done_callback"})
              => <<last.a, last.b>> \notin DOMAIN edges

\* A DeleteRelationByNodes of an existing edge that stopped in the graph-store
\* commit: the removal and the vector-index commit are done.
C12_Witness ==
    /\ last.op = "delete_relation_by_nodes"
    /\ <<last.a, last.b>> \in DOMAIN before.edges
    /\ Len(last.calls) = 3
    /\ ~Succeeded

\* --------------------------------------------------------------------- C13
\* The store calls that write to each store, and each store's commit.
GraphWrites == {"graph.rename_node", "graph.upsert_node", "graph.remove_node",
                "graph.upsert_edge", "chunk_entity_relation_graph.remove_edges"}
VectorWrites == {"vdb.delete_entity", "vdb.delete_relation",
                 "relationships_vdb.delete_entity_relation_by_nodes"}
GraphCommits == {"chunk_entity_relation_graph.index_done_callback"}
VectorCommits == {"vdb.index_done_callback", "relationships_vdb.index_done_callback"}

\* Every write of the calls cs to a store is followed by a commit of it.
CommittedAfterWrites(cs, writes, commits) ==
    \A i \in 1..Len(cs) :
        cs[i] \in writes => \E j \in (i + 1)..Len(cs) : cs[j] \in commits

\* C13: commit barrier. A mutating operation that returns success has called
\* the commit (index-done) of each store it wrote to, after its last write to
\* that store.
C13_CommitBarrier ==
    (last.op \in Mutations /\ Succeeded) =>
        /\ CommittedAfterWrites(last.calls, GraphWrites, GraphCommits)
        /\ CommittedAfterWrites(last.calls, VectorWrites, VectorCommits)

\* --------------------------------------------------------------------- C14
\* The stores that the first n store calls of DeleteRelationByNodes(src, tgt)
\* leave when started from S.
AfterDeleteRelationCalls(S, src, tgt, n) ==
    [nodes |-> S.nodes,
     edges |-> IF n >= 2
               THEN [e \in (DOMAIN S.edges) \ {<<src, tgt>>} |-> S.edges[e]]
               ELSE S.edges,
     vindex |-> IF n >= 1 THEN S.vindex \ {compositeKey(src, tgt)} ELSE S.vindex]

\* C14: no rollback on partial failure. If in DeleteRelationByNodes(src, tgt)
\* the vector delete succeeds and a later call fails, the operation reports
\* the failure, makes no further store call, and leaves the stores exactly as
\* the completed calls produced them.
C14_NoRollback ==
    (last.op = "delete_relation_by_nodes" /\ last.err # NoErr /\ Len(last.calls) >= 1) =>
        /\ last.out = HTTPException(500, last.err)
        /\ last.calls = SubSeq(DeleteRelationOrder, 1, Len(last.calls))
        /\ Store = AfterDeleteRelationCalls(before, last.a, last.b, Len(last.calls))

\* The edge removal failed after the vector record of an existing edge was
\* deleted: the record is gone and the edge is still there.
C14_Witness ==
    /\ last.op = "delete_relation_by_nodes" /\ last.err # NoErr
    /\ Len(last.calls) = 1
    /\ compositeKey(last.a, last.b) \in before.vindex
    /\ compositeKey(last.a, last.b) \notin vindex
    /\ <<last.a, last.b>> \in DOMAIN edges

\* --------------------------------------------------------------------- C16
\* C16: relations are directed. For distinct src and tgt,
\* DeleteRelationByNodes(src, tgt) and UpdateRelationByNodes(src, tgt, fields)
\* leave the edge (tgt, src) and its vector record as they were, and
\* GetRelationByNodes(tgt, src) answers the same before and after.
C16_Directed ==
    (last.op \in {"delete_relation_by_nodes", "update_relation_by_nodes"}
        /\ last.a # last.b) =>
        /\ getEdge(Store, last.b, last.a) = getEdge(before, last.b, last.a)
        /\ (compositeKey(last.b, last.a) \in vindex)
              = (compositeKey(last.b, last.a) \in before.vindex)
        /\ GetRelationByNodesNow(last.b, last.a)
              = get_relation_by_nodes(before, last.b, last.a, 0).out

\* A successful delete of an edge whose reverse edge exists with its record.
C16_Witness ==
    /\ last.op = "delete_relation_by_nodes" /\ Succeeded
    /\ last.a # last.b
    /\ <<last.a, last.b>> \in DOMAIN before.edges
    /\ <<last.b, last.a>> \in DOMAIN edges
    /\ compositeKey(last.b, last.a) \in vindex

\* --------------------------------------------------------------------- C17
\* C17: idempotent relation delete. With no store failure
\* DeleteRelationByNodes(src, tgt) succeeds for every ordered pair, whether
\* or not the edge or its vector record exists; called again after a success
\* it succeeds and leaves the graph store and the vector index as the first
\* call left them.
C17_IdempotentRelationDelete ==
    /\ (last.op = "delete_relation_by_nodes" /\ last.err = NoErr) => Succeeded
    /\ (last.op = "delete_relation_by_nodes" /\ Succeeded) =>
          LET again == delete_relation_by_nodes(Store, last.a, last.b, 0)
          IN /\ again.out = DataResponse(0, "ok", <<"">>)
             /\ again.S = Store

\* A successful delete of a pair that has neither an edge nor a record.
C17_Witness ==
    /\ last.op = "delete_relation_by_nodes" /\ Succeeded
    /\ <<last.a, last.b>> \notin DOMAIN before.edges
    /\ compositeKey(last.a, last.b) \notin before.vindex
    /\ DOMAIN before.edges # {}

\* --------------------------------------------------------------------- C18
\* C18: UpdateRelationByNodes is an upsert without endpoint validation. With
\* no store failure it succeeds for every src and tgt, also when the edge
\* does not exist or src or tgt is no node; afterwards GetRelationByNodes(src,
\* tgt) is present; the returned data has id = src + "_" + tgt, source = src
\* and target = tgt; and on an existing edge the fields the request left out
\* keep their stored values.
C18_RelationUpsert ==
    (last.op = "update_relation_by_nodes" /\ last.err = NoErr) =>
        /\ Succeeded
        /\ GetRelationByNodesNow(last.a, last.b).data # <<>>
        /\ last.out.data[1].id = last.a \o "_" \o last.b
        /\ last.out.data[1].source = last.a
        /\ last.out.data[1].target = last.b
        /\ <<last.a, last.b>> \in DOMAIN before.edges =>
              \A k \in EdgeKeys :
                  last.req[k] = Missing =>
                      edges[<<last.a, last.b>>][k] = before.edges[<<last.a, last.b>>][k]

\* An upsert of a new edge whose source is no node.
C18_Witness ==
    /\ last.op = "update_relation_by_nodes" /\ Succeeded
    /\ last.a \notin DOMAIN before.nodes
    /\ <<last.a, last.b>> \notin DOMAIN before.edges
    /\ <<last.a, last.b>> \in DOMAIN edges

\* --------------------------------------------------------------------- C19
\* C19: after a successful UpdateEntity(A, {entity_name: A2}) with A2
\* different from A, the id and the label of the returned record are A2, the
\* key under which the entity is stored: GetEntity(returned id) is present.
C19_ReturnedIdIsStoredKey ==
    (last.op = "update_entity" /\ Succeeded
        /\ RenameTarget(last.req) \notin {"", last.a}) =>
        /\ last.out.data[1].id = RenameTarget(last.req)
        /\ last.out.data[1].label = RenameTarget(last.req)
        /\ GetEntityNow(last.out.data[1].id).data # <<>>

\* --------------------------------------------------------------------- C15
ReadOps == {"get_node", "get_relation_by_nodes", "get_relation_by_node",
            "get_graph_entity_list", "get_graph_data"}

\* Request t1 is an UpdateEntity(A, {entity_name: A2}) with A2 different from A.
RenameInFlight ==
    /\ tasks["t1"].op = "update_entity"
    /\ RenameTarget(tasks["t1"].req) \notin {"", tasks["t1"].a}

\* The store S holds no edge with endpoint A unless it holds node A.
NoDanglingEndpoint(S, A) == (incident(S, A) # {}) => A \in DOMAIN S.nodes

\* Of the edges that were incident to A when the rename began, S holds either
\* all of them as they were or all of them re-pointed to A2.
AllOrNothing(S, start, A, A2) ==
    LET inc == incident(start, A)
        target(e) == <<renamed(e[1], A, A2), renamed(e[2], A, A2)>>
    IN \/ \A e \in inc : e \in DOMAIN S.edges
       \/ \A e \in inc : e \notin DOMAIN S.edges /\ target(e) \in DOMAIN S.edges

RaceOnSamePair ==
    /\ tasks["t1"].op = "delete_relation_by_nodes"
    /\ tasks["t2"].op = "update_relation_by_nodes"
    /\ tasks["t1"].a = tasks["t2"].a
    /\ tasks["t1"].b = tasks["t2"].b

BothReturnedSuccess == tasks["t1"].state = "ok" /\ tasks["t2"].state = "ok"

\* C20: when DeleteRelationByNodes(src, tgt) and UpdateRelationByNodes(src,
\* tgt, fields) run concurrently on the same pair, each store call atomic,
\* then in every interleaving, once both have returned success, the vector
\* index holds a record for compositeKey(src, tgt) if and only if the graph
\* store holds the edge (src, tgt).
C20_RaceLeavesStoresConsistent ==
    (RaceOnSamePair /\ BothReturnedSuccess) =>
        (compositeKey(tasks["t1"].a, tasks["t1"].b) \in vindex
            <=> <<tasks["t1"].a, tasks["t1"].b>> \in DOMAIN edges)

====
